---- MODULE Spec2Model ----
(***************************************************************************)
(* Model of the NIF generate_permutations of DomainTwistex                 *)
(* (src/native/domaintwistex/src/lib.rs).                                  *)
(*                                                                         *)
(* lib.rs parses the input with Domain::new, asks the parsed domain for    *)
(* all its permutations, collects them into a HashSet<Permutation>, and    *)
(* maps every element of the set to a Result {fqdn, tld, kind}.            *)
(*                                                                         *)
(* Domain::new and Domain::all belong to the permutation engine, whose     *)
(* code is not part of src/; they are modelled from spec.md sections 3     *)
(* and 4 (the parser, five of the listed strategies, per-candidate         *)
(* re-validation).  Strings are sequences of one-character strings.        *)
(***************************************************************************)
EXTENDS Naturals, Sequences, FiniteSets

VARIABLES
    pc,          \* position inside generate_permutations, "idle" between calls
    domain_str,  \* the argument of the running (or last) call
    domain,      \* the parsed Domain (lib.rs:18), NoDomain before the parse
    perms,       \* the HashSet<Permutation> (lib.rs:26-29)
    seed,        \* the hash keys the HashSet was created with
    ret,         \* the NifResult<Vec<Result>> handed back to the caller
    parsed,      \* outcome of Domain::new in this call: "none", "ok", "err"
    generated,   \* outcome of domain.all() in this call: "none", "ok", "err"
    calls,       \* number of calls started so far
    prev         \* what the preceding call returned, kept while the same
                 \* input is passed again (history, not program state)

vars == <<pc, domain_str, domain, perms, seed, ret, parsed, generated, calls, prev>>

(***************************************************************************)
(* Bounds                                                                  *)
(***************************************************************************)
MaxRoot == 2     \* longest label the caller writes
MaxSeed == 4     \* number of distinct hash keys a HashSet may be created with
MaxCalls == 2    \* calls made one after the other

(***************************************************************************)
(* Strings                                                                 *)
(***************************************************************************)
Dot == "."

Range(s) == {s[i] : i \in DOMAIN s}

\* char::to_lowercase on the characters the callers of the model write
Lower(c) == IF c = "A" THEN "a" ELSE c

ToLower(s) == [i \in DOMAIN s |-> Lower(s[i])]

RECURSIVE Split(_)
\* s.split('.'): the labels of s, empty labels included
Split(s) ==
    IF \A i \in DOMAIN s : s[i] # Dot
    THEN <<s>>
    ELSE LET k == CHOOSE i \in DOMAIN s : s[i] = Dot /\ \A j \in 1..(i-1) : s[j] # Dot
         IN  <<SubSeq(s, 1, k-1)>> \o Split(SubSeq(s, k+1, Len(s)))

RECURSIVE Join(_)
\* labels.join(".")
Join(labels) ==
    IF Len(labels) = 0 THEN <<>>
    ELSE IF Len(labels) = 1 THEN labels[1]
    ELSE labels[1] \o <<Dot>> \o Join(Tail(labels))

(***************************************************************************)
(* Domain parser (spec.md 4.1)                                             *)
(***************************************************************************)
MaxDomainLen == 253
MaxLabelLen == 63

\* characters a label may hold after case normalisation
LabelChars == {"a", "b", "c", "i", "o", "z", "-"}

\* the public-suffix list, each suffix as its sequence of labels
PublicSuffixes == { << <<"c","o">> >>, << <<"i","o">> >> }

NoDomain == [ok |-> FALSE, err |-> "None", fqdn |-> <<>>, tld |-> <<>>, domain |-> <<>>]

ParseError(e) == [ok |-> FALSE, err |-> e, fqdn |-> <<>>, tld |-> <<>>, domain |-> <<>>]

\* the numbers k of trailing labels of `labels` that form a public suffix
SuffixLens(labels) ==
    {k \in 1..Len(labels) :
        SubSeq(labels, Len(labels) - k + 1, Len(labels)) \in PublicSuffixes}

\* Domain::new
Parse(s) ==
    LET low    == ToLower(s)
        labels == Split(low)
        ks     == SuffixLens(labels)
        k      == CHOOSE x \in ks : \A y \in ks : y <= x
        n      == Len(labels)
    IN  IF Len(s) = 0 THEN ParseError("InvalidDomain")
        ELSE IF Len(s) > MaxDomainLen THEN ParseError("InputTooLarge")
        ELSE IF \E i \in 1..n : Len(labels[i]) > MaxLabelLen
             THEN ParseError("InputTooLarge")
        ELSE IF \E i \in 1..n : Len(labels[i]) = 0 \/ ~(Range(labels[i]) \subseteq LabelChars)
             THEN ParseError("InvalidDomain")
        ELSE IF ks = {} THEN ParseError("InvalidDomain")
        ELSE IF k = n THEN ParseError("InvalidDomain")
        ELSE [ok |-> TRUE, err |-> "None", fqdn |-> low,
              tld |-> Join(SubSeq(labels, n - k + 1, n)),
              domain |-> labels[n - k]]

(***************************************************************************)
(* Mutation strategies (spec.md 4.2)                                       *)
(***************************************************************************)
\* PermutationKind, by discriminant
Addition == 1
Omission == 2
Repetition == 3
Transposition == 4
TldVariation == 5

Kinds == {Addition, Omission, Repetition, Transposition, TldVariation}

\* the fixed tables of the strategies
AdditionAlphabet == <<"a", "b">>
TldList == << <<"c","o">>, <<"i","o">> >>

MkFqdn(root, tld) == root \o <<Dot>> \o tld

AdditionRoots(d) ==
    [i \in 1..Len(AdditionAlphabet) |-> Append(d.domain, AdditionAlphabet[i])]

OmissionRoots(d) ==
    [i \in 1..Len(d.domain) |->
        SubSeq(d.domain, 1, i-1) \o SubSeq(d.domain, i+1, Len(d.domain))]

RepetitionRoots(d) ==
    [i \in 1..Len(d.domain) |->
        SubSeq(d.domain, 1, i) \o SubSeq(d.domain, i, Len(d.domain))]

TranspositionRoots(d) ==
    [i \in 1..(Len(d.domain) - 1) |->
        SubSeq(d.domain, 1, i-1) \o <<d.domain[i+1], d.domain[i]>>
            \o SubSeq(d.domain, i+2, Len(d.domain))]

\* the candidate strings of one strategy, in the order it produces them
Candidates(kind, d) ==
    IF kind = TldVariation
    THEN [i \in 1..Len(TldList) |-> MkFqdn(d.domain, TldList[i])]
    ELSE LET roots == IF kind = Addition THEN AdditionRoots(d)
                      ELSE IF kind = Omission THEN OmissionRoots(d)
                      ELSE IF kind = Repetition THEN RepetitionRoots(d)
                      ELSE TranspositionRoots(d)
         IN  [i \in 1..Len(roots) |-> MkFqdn(roots[i], d.tld)]

RECURSIVE Validated(_, _)
\* re-validation: every candidate string is parsed, the illegal ones dropped
Validated(kind, cands) ==
    IF Len(cands) = 0 THEN <<>>
    ELSE LET p == Parse(Head(cands))
         IN  (IF p.ok THEN << [domain |-> p, kind |-> kind] >> ELSE <<>>)
                \o Validated(kind, Tail(cands))

Strategy(kind, d) == Validated(kind, Candidates(kind, d))

\* Domain::all, the strategies chained in their fixed order
All(d) ==
    Strategy(Addition, d) \o Strategy(Omission, d) \o Strategy(Repetition, d)
        \o Strategy(Transposition, d) \o Strategy(TldVariation, d)

(***************************************************************************)
(* lib.rs                                                                  *)
(***************************************************************************)
\* format!("{:?}", p.kind): the name of the variant
DebugFmt(kind) ==
    <<"Addition", "Omission", "Repetition", "Transposition", "TldVariation">>[kind]

Ok(v) == [tag |-> "Ok", val |-> v]
Err(e) == [tag |-> "Err", val |-> <<>>, err |-> e]
NoRet == [tag |-> "None", val |-> <<>>]

OnParseErrPropagate == Err("InvalidDomain")

\* lib.rs:20, Err(_) => return Ok(Default::default())
OnParseErr == Ok(<<>>)

OnGenerateErrPropagate == Err("Generation")

\* lib.rs:28, Err(_) => return Ok(Default::default())
OnGenerateErr == Ok(<<>>)

CollectUntilRepeat(stream) ==
    LET repeats == {i \in DOMAIN stream : \E j \in 1..(i - 1) : stream[j] = stream[i]}
    IN  {stream[i] : i \in {n \in DOMAIN stream : \A r \in repeats : n < r}}

\* lib.rs:27, p.collect::<HashSet<_>>(): Permutation is hashed and compared
\* as a whole, its domain and its kind
CollectHashSet(stream) == {stream[i] : i \in DOMAIN stream}

RECURSIVE FirstSeen(_, _)
\* the elements of S in the order of their first occurrence in stream
FirstSeen(stream, S) ==
    IF Len(stream) = 0 THEN <<>>
    ELSE IF Head(stream) \in S
         THEN <<Head(stream)>> \o FirstSeen(Tail(stream), S \ {Head(stream)})
         ELSE FirstSeen(Tail(stream), S)

Reverse(s) == [i \in DOMAIN s |-> s[Len(s) + 1 - i]]

Rotate(s, r) ==
    IF Len(s) = 0 THEN s
    ELSE [i \in DOMAIN s |-> s[((i - 1 + r) % Len(s)) + 1]]

\* lib.rs:32, perms.iter(): the order in which a HashSet built with hash keys
\* k yields its elements.  The order is fixed by the keys alone and differs
\* from one set to the next; key k stands for the bucket order that starts
\* at the (k \div 2)-th element and runs forward (k even) or backward (k odd).
IterOrder(S, k) ==
    LET base == FirstSeen(All(domain), S)
    IN  Rotate(IF k % 2 = 0 THEN base ELSE Reverse(base), k \div 2)

ToResultInputTld(p) ==
    [fqdn |-> p.domain.fqdn, tld |-> domain.tld, kind |-> DebugFmt(p.kind)]

ToResultRootAsFqdn(p) ==
    [fqdn |-> p.domain.domain, tld |-> p.domain.tld, kind |-> DebugFmt(p.kind)]

\* lib.rs:33-37, the closure of map
ToResult(p) ==
    [fqdn |-> p.domain.fqdn, tld |-> p.domain.tld, kind |-> DebugFmt(p.kind)]

RECURSIVE MapCollectUniqueFqdn(_)
MapCollectUniqueFqdn(order) ==
    IF Len(order) = 0 THEN <<>>
    ELSE LET front == MapCollectUniqueFqdn(SubSeq(order, 1, Len(order) - 1))
             r     == ToResult(order[Len(order)])
         IN  IF \E i \in DOMAIN front : front[i].fqdn = r.fqdn
             THEN front
             ELSE Append(front, r)

MapCollectSkipFirst(order) ==
    [i \in 1..(Len(order) - 1) |-> ToResult(order[i + 1])]

\* lib.rs:31-38, perms.iter().map(..).collect()
MapCollect(order) == [i \in DOMAIN order |-> ToResult(order[i])]

(***************************************************************************)
(* Callers                                                                 *)
(***************************************************************************)
InputChars == {"a", "b", "A", "_"}

RECURSIVE Words(_)
\* the strings over InputChars of length n
Words(n) ==
    IF n = 0 THEN {<<>>}
    ELSE {Append(w, c) : w \in Words(n - 1), c \in InputChars}

Labels == UNION {Words(n) : n \in 0..MaxRoot}

Tails == {<<>>, <<".", "c", "o">>, <<".", "i", "o">>, <<".", "z", "z">>}

Prefixes == {<<>>, <<"b", ".">>}

Inputs == {pre \o l \o t : pre \in Prefixes, l \in Labels, t \in Tails}

Seeds == 0..(MaxSeed - 1)

NoPrev == [input |-> <<"?">>, tag |-> "None", val |-> <<>>]

(***************************************************************************)
(* The state machine                                                       *)
(***************************************************************************)
Init ==
    /\ pc = "idle"
    /\ domain_str = <<>>
    /\ domain = NoDomain
    /\ perms = {}
    /\ seed = 0
    /\ ret = NoRet
    /\ parsed = "none"
    /\ generated = "none"
    /\ calls = 0
    /\ prev = NoPrev

\* the host calls generate_permutations(s); nothing of an earlier call is left
Call(s) ==
    /\ pc = "idle"
    /\ calls < MaxCalls
    /\ calls' = calls + 1
    /\ domain_str' = s
    /\ domain' = NoDomain
    /\ perms' = {}
    /\ seed' = 0
    /\ ret' = NoRet
    /\ parsed' = "none"
    /\ generated' = "none"
    /\ prev' = IF prev.input = s THEN prev ELSE NoPrev
    /\ pc' = "parse"

\* lib.rs:18-19, Domain::new(&domain_str) is Ok(d)
ParseOk ==
    /\ pc = "parse"
    /\ Parse(domain_str).ok
    /\ domain' = Parse(domain_str)
    /\ parsed' = "ok"
    /\ pc' = "generate"
    /\ UNCHANGED <<domain_str, perms, seed, ret, generated, calls, prev>>

\* lib.rs:20, Domain::new(&domain_str) is Err(_)
ParseErr ==
    /\ pc = "parse"
    /\ ~Parse(domain_str).ok
    /\ parsed' = "err"
    /\ ret' = OnParseErr
    /\ pc' = "done"
    /\ UNCHANGED <<domain_str, domain, perms, seed, generated, calls, prev>>

\* lib.rs:26-27, domain.all() is Ok(p) and p is collected into a new HashSet
GenerateOk ==
    /\ pc = "generate"
    /\ \E k \in Seeds : seed' = k
    /\ perms' = CollectHashSet(All(domain))
    /\ generated' = "ok"
    /\ pc' = "map"
    /\ UNCHANGED <<domain_str, domain, ret, parsed, calls, prev>>

\* lib.rs:28, domain.all() is Err(_)
GenerateErr ==
    /\ pc = "generate"
    /\ generated' = "err"
    /\ ret' = OnGenerateErr
    /\ pc' = "done"
    /\ UNCHANGED <<domain_str, domain, perms, seed, parsed, calls, prev>>

\* lib.rs:31-40, the set is mapped to the Vec<Result> and returned
MapResults ==
    /\ pc = "map"
    /\ ret' = Ok(MapCollect(IterOrder(perms, seed)))
    /\ pc' = "done"
    /\ UNCHANGED <<domain_str, domain, perms, seed, parsed, generated, calls, prev>>

\* the host receives the value; the locals of the call are dropped
Return ==
    /\ pc = "done"
    /\ prev' = [input |-> domain_str, tag |-> ret.tag, val |-> ret.val]
    /\ pc' = "idle"
    /\ UNCHANGED <<domain_str, domain, perms, seed, ret, parsed, generated, calls>>

Next ==
    \/ \E s \in Inputs : Call(s)
    \/ ParseOk
    \/ ParseErr
    \/ GenerateOk
    \/ MapResults
    \/ Return

\* the permutation engine as spec.md describes it: once the input has
\* parsed, no strategy and no chaining step reports an error
Spec == Init /\ [][Next]_vars

NextGenErr == Next \/ GenerateErr

\* the engine behind the signature lib.rs sees: domain.all() may be Err
SpecGenErr == Init /\ [][NextGenErr]_vars

(***************************************************************************)
(* Properties                                                              *)
(***************************************************************************)
Records == Range(ret.val)

\* the records of the returned collection that carry the fqdn f
WithFqdn(f) == {i \in DOMAIN ret.val : ret.val[i].fqdn = f}

\* the candidate strings of a strategy that pass re-validation
Legal(kind, d) == {c \in Range(Candidates(kind, d)) : Parse(c).ok}

\* C1: the returned collection holds no two records with the same
\* case-normalised fqdn, also when two kinds produce the same fqdn.
C1_UniqueFqdn ==
    pc = "done" =>
        \A i, j \in DOMAIN ret.val :
            ToLower(ret.val[i].fqdn) = ToLower(ret.val[j].fqdn) => i = j

\* C2: an input the parser rejects, the empty string included, gives the
\* successful result holding the empty collection, never an error.
C2_RejectedInputGivesEmptyOk ==
    (pc = "done" /\ ~Parse(domain_str).ok) => (ret.tag = "Ok" /\ ret.val = <<>>)

C2_Witness ==
    /\ pc = "done"
    /\ Len(domain_str) > 0
    /\ ~Parse(domain_str).ok
    /\ ret = [tag |-> "Ok", val |-> <<>>]

\* C3: for a valid input no returned record has the fqdn of the normalised
\* input, whatever its kind.
C3_NoSelfInclusion ==
    (pc = "done" /\ Parse(domain_str).ok) =>
        \A i \in DOMAIN ret.val : ret.val[i].fqdn # Parse(domain_str).fqdn

\* C4: two calls on the same valid input return the same set of
\* {fqdn, tld, kind} records, and as many of them.
C4_RepeatedCallSameRecords ==
    (pc = "done" /\ prev.input = domain_str /\ Parse(domain_str).ok) =>
        /\ ret.tag = prev.tag
        /\ Range(ret.val) = Range(prev.val)
        /\ Len(ret.val) = Len(prev.val)

C4_Witness ==
    /\ pc = "done"
    /\ prev.input = domain_str
    /\ Parse(domain_str).ok
    /\ Len(ret.val) > 1
    /\ ret.val # prev.val
    /\ Range(ret.val) = Range(prev.val)

\* C5: when two strategies generate the same fqdn, exactly one record with
\* that fqdn is retained, and the kind it carries is the same on every run.
C5_CollisionKeepsOneRecord ==
    (pc = "done" /\ generated = "ok") =>
        \A p, q \in Range(All(domain)) :
            (p.domain.fqdn = q.domain.fqdn /\ p.kind # q.kind) =>
                /\ Cardinality(WithFqdn(p.domain.fqdn)) = 1
                /\ prev.input = domain_str =>
                     \A i \in WithFqdn(p.domain.fqdn) :
                        \A j \in DOMAIN prev.val :
                            prev.val[j].fqdn = ret.val[i].fqdn
                                => prev.val[j].kind = ret.val[i].kind

C7_EmittedFqdnReparses ==
    pc = "done" => \A i \in DOMAIN ret.val : Parse(ret.val[i].fqdn).ok

C7_Witness ==
    /\ pc = "done"
    /\ Len(ret.val) > 0
    /\ \E kind \in Kinds : \E c \in Range(Candidates(kind, domain)) : ~Parse(c).ok
    /\ \A i \in DOMAIN ret.val : Parse(ret.val[i].fqdn).ok

\* C8: the tld of every returned record is the suffix of the record's own
\* fqdn, not the suffix of the input.
C8_TldIsCandidatesOwn ==
    pc = "done" =>
        \A i \in DOMAIN ret.val : ret.val[i].tld = Parse(ret.val[i].fqdn).tld

C8_Witness ==
    /\ pc = "done"
    /\ \E i \in DOMAIN ret.val :
        /\ ret.val[i].kind = "TldVariation"
        /\ ret.val[i].tld # domain.tld
        /\ ret.val[i].tld = Parse(ret.val[i].fqdn).tld

\* C9: every call returns a success value; when the parse succeeds and
\* domain.all() reports an error the collection is empty; no strategy runs
\* before the parse has succeeded.
C9_AlwaysSuccessAndParseFirst ==
    /\ pc = "done" => ret.tag = "Ok"
    /\ (pc = "done" /\ generated = "err") => ret.val = <<>>
    /\ generated # "none" => (parsed = "ok" /\ Parse(domain_str).ok)
    /\ ~Parse(domain_str).ok => (generated = "none" /\ perms = {})

C9_Witness ==
    /\ pc = "done"
    /\ parsed = "ok"
    /\ generated = "err"
    /\ ret = [tag |-> "Ok", val |-> <<>>]

\* C10: the returned collection has one record per element of the
\* deduplicated set, carrying that element's fqdn, tld and kind; nothing is
\* added, dropped or altered between the set and the return.
C10_ResultIsProjectionOfSet ==
    (pc = "done" /\ generated = "ok") =>
        /\ Len(ret.val) = Cardinality(perms)
        /\ Records = {[fqdn |-> p.domain.fqdn, tld |-> p.domain.tld,
                       kind |-> DebugFmt(p.kind)] : p \in perms}

C10_Witness ==
    /\ pc = "done"
    /\ generated = "ok"
    /\ Cardinality(perms) > 1
    /\ Len(All(domain)) > Cardinality(perms)
    /\ Len(ret.val) = Cardinality(perms)

====
